---- MODULE Spec2Model ----
(***************************************************************************)
(* imgcatr: a model of the rendering pipeline of src/src (format guessing, *)
(* dimension planning, colour matching, colour table building, main).      *)
(*                                                                         *)
(* One specification per component; every specification shares the        *)
(* variables below, and leaves the components it does not drive idle.      *)
(*   SpecGuess   guess_format                                              *)
(*   SpecSize    image_resized_size                                        *)
(*   SpecColour  closest_colour                                            *)
(*   SpecTable   create_colourtable                                        *)
(*   SpecGlyph   get_str_ascii and the intensity of write_ascii            *)
(*   SpecRender  write_ansi, write_ansi_truecolor, write_ascii             *)
(*   Spec        main / actual_main / result_main                          *)
(***************************************************************************)
EXTENDS Integers, Sequences, FiniteSets, TLC

VARIABLES
    gfile,      \* guess_format: its argument file: &(String, PathBuf), and the file system behind it
    gres,       \* guess_format: its outcome
    gopens,     \* guess_format: number of File::open calls made
    gread,      \* guess_format: number of bytes read from the file
    ssize,      \* image_resized_size: size
    sterm,      \* image_resized_size: term_size
    saspect,    \* image_resized_size: preserve_aspect
    sres,       \* image_resized_size: its outcome
    cto,        \* closest_colour: to
    cpal,       \* closest_colour: out_of
    cres,       \* closest_colour: its outcome
    timg,       \* create_colourtable: img
    tupper,     \* create_colourtable: upper_colours
    tlower,     \* create_colourtable: lower_colours
    tres,       \* create_colourtable: its outcome (the table and the pixels read)
    apix,       \* write_ascii: the pixel pix of one iteration
    ares,       \* write_ascii: what that iteration prints
    wimg,       \* write_*: img
    wfmt,       \* write_*: the AnsiOutputFormat whose renderer is called
    wres,       \* write_*: its outcome (what was written and the pixels read)
    pc,         \* main: position in result_main / actual_main
    opts,       \* main: the parsed Options and the file behind opts.image
    merr,       \* main: the Err result_main returned (NotCalled while there is none)
    format,     \* main: result_main's format
    img,        \* main: result_main's img
    resized,    \* main: result_main's resized
    ran,        \* main: the pipeline stages that have run, in order
    out,        \* main: what was written to stdout
    errout,     \* main: what was written to stderr
    exit        \* main: the value handed to process::exit (<<>> before it)

vars == <<gfile, gres, gopens, gread, ssize, sterm, saspect, sres, cto, cpal, cres,
          timg, tupper, tlower, tres, apix, ares, wimg, wfmt, wres, pc, opts, merr, format, img, resized, ran, out, errout, exit>>

guessVars == <<gfile, gres, gopens, gread>>
sizeVars == <<ssize, sterm, saspect, sres>>
colourVars == <<cto, cpal, cres>>
tableVars == <<timg, tupper, tlower, tres>>
glyphVars == <<apix, ares>>
renderVars == <<wimg, wfmt, wres>>
mainVars == <<pc, opts, merr, format, img, resized, ran, out, errout, exit>>

Min(a, b) == IF a < b THEN a ELSE b

Take(s, n) == SubSeq(s, 1, Min(n, Len(s)))

Range(s) == {s[i] : i \in 1..Len(s)}

\* Iterator::collect into a Vec: the values of the mapped range, each computed once
Collect(mapped) == SubSeq(mapped, 1, Len(mapped))

(***************************************************************************)
(* util.rs: the magic numbers.                                             *)
(***************************************************************************)
BMP_MAGIC == <<66, 77>>

ICO_MAGIC == <<0, 0, 1, 0>>

GIF_MAGIC == <<71, 73, 70, 56>>

PNG_MAGIC == <<137, 80, 78, 71, 13, 10, 26, 10>>

JPEG_MAGIC == <<255, 216, 255, 224>>

(***************************************************************************)
(* ops/mod.rs: guess_format.                                               *)
(*                                                                         *)
(* A file is [display, stem, ext, fs]: display is file.0, stem and ext are *)
(* file.1's file name, fs is what the file system holds at file.1.         *)
(* ext is [some, utf8, s]: Path::extension()'s Option<&OsStr>; s is the    *)
(* extension's characters when it is valid UTF-8.                          *)
(* fs is [kind, bytes]: kind "missing" or "noperm" (open fails), "dir"      *)
(* (open succeeds, read fails) or "file" (open and read succeed).          *)
(***************************************************************************)
UpperChars == <<"A", "B", "C", "D", "E", "F", "G", "H", "I", "J", "K", "L", "M",
                "N", "O", "P", "Q", "R", "S", "T", "U", "V", "W", "X", "Y", "Z">>

LowerChars == <<"a", "b", "c", "d", "e", "f", "g", "h", "i", "j", "k", "l", "m",
                "n", "o", "p", "q", "r", "s", "t", "u", "v", "w", "x", "y", "z">>

\* str::to_lowercase on one character
ToLowerChar(c) ==
    IF \E i \in 1..Len(UpperChars) : UpperChars[i] = c
    THEN LowerChars[CHOOSE i \in 1..Len(UpperChars) : UpperChars[i] = c]
    ELSE c

\* str::to_lowercase
ToLowercase(s) == [i \in 1..Len(s) |-> ToLowerChar(s[i])]

\* the match arms of guess_format, in the order of the source
ExtArms == <<
    << <<"p", "n", "g">>,       "Png"  >>,
    << <<"j", "p", "g">>,       "Jpeg" >>,
    << <<"j", "p", "e", "g">>,  "Jpeg" >>,
    << <<"j", "p", "e">>,       "Jpeg" >>,
    << <<"j", "i", "f">>,       "Jpeg" >>,
    << <<"j", "f", "i", "f">>,  "Jpeg" >>,
    << <<"j", "f", "i">>,       "Jpeg" >>,
    << <<"g", "i", "f">>,       "Gif"  >>,
    << <<"w", "e", "b", "p">>,  "WebP" >>,
    << <<"p", "p", "m">>,       "Pnm"  >>,
    << <<"t", "i", "f", "f">>,  "Tiff" >>,
    << <<"t", "i", "f">>,       "Tiff" >>,
    << <<"t", "g", "a">>,       "Tga"  >>,
    << <<"b", "m", "p">>,       "Bmp"  >>,
    << <<"d", "i", "b">>,       "Bmp"  >>,
    << <<"i", "c", "o">>,       "Ico"  >>,
    << <<"h", "d", "r">>,       "Hdr"  >> >>

\* mutant of ExtMatch: the extension is compared without being lower-cased
ExtMatchCaseSensitive(s) ==
    IF \E i \in 1..Len(ExtArms) : ExtArms[i][1] = s
    THEN ExtArms[CHOOSE i \in 1..Len(ExtArms) : ExtArms[i][1] = s][2]
    ELSE "None"

\* the match on the lower-cased extension: the arm's format, or "None" for `_ => None`
ExtMatch(s) ==
    LET l == ToLowercase(s) IN
    IF \E i \in 1..Len(ExtArms) : ExtArms[i][1] = l
    THEN ExtArms[CHOOSE i \in 1..Len(ExtArms) : ExtArms[i][1] = l][2]
    ELSE "None"

\* the size of guess_format's buffer
BufLen == 32

\* buf.len() >= MAGIC.len() && &buf[..MAGIC.len()] == MAGIC
HasMagic(buf, magic) ==
    Len(buf) >= Len(magic) /\ SubSeq(buf, 1, Len(magic)) = magic

\* the if / else if chain over the bytes read
MagicMatch(buf) ==
    IF HasMagic(buf, PNG_MAGIC) THEN "Png"
    ELSE IF HasMagic(buf, JPEG_MAGIC) THEN "Jpeg"
    ELSE IF HasMagic(buf, GIF_MAGIC) THEN "Gif"
    ELSE IF HasMagic(buf, BMP_MAGIC) THEN "Bmp"
    ELSE IF HasMagic(buf, ICO_MAGIC) THEN "Ico"
    ELSE "None"

\* outcomes of a fallible call: Ok(tag), Err(err(name)), a panic, or not called yet
Ok(tag) == [kind |-> "Ok", tag |-> tag, err |-> "", name |-> ""]

Err(err, name) == [kind |-> "Err", tag |-> "", err |-> err, name |-> name]

Panic == [kind |-> "Panic", tag |-> "", err |-> "", name |-> ""]

NotCalled == [kind |-> "None", tag |-> "", err |-> "", name |-> ""]

\* File::open(&file.1) is an Err
OpenFails(file) == file.fs.kind \in {"missing", "noperm"}

\* the closure given to unwrap_or_else: open, read up to BufLen bytes, compare the magics
MagicFallback(file) ==
    IF OpenFails(file)
    THEN [res |-> Err("OpeningImageFailed", file.display), opens |-> 1, read |-> 0]
    ELSE IF file.fs.kind = "dir"
    THEN [res |-> Panic, opens |-> 1, read |-> 0]
    ELSE LET buf == Take(file.fs.bytes, BufLen)
             tag == MagicMatch(buf)
         IN  [res   |-> IF tag # "None" THEN Ok(tag)
                        ELSE Err("GuessingFormatFailed", file.display),
              opens |-> 1,
              read  |-> Len(buf)]

\* guess_format: its result, and the file accesses it made
GuessFormatOf(file) ==
    IF ~file.ext.some
    THEN MagicFallback(file)
    ELSE IF ~file.ext.utf8
    THEN [res |-> Panic, opens |-> 0, read |-> 0]
    ELSE LET tag == ExtMatch(file.ext.s) IN
         IF tag # "None"
         THEN [res |-> Ok(tag), opens |-> 0, read |-> 0]
         ELSE MagicFallback(file)

(***************************************************************************)
(* f32 arithmetic, as image_resized_size and closest_colour use it.        *)
(*                                                                         *)
(* A non-negative f32 is [k, m, e]: k is "zero", "inf", "nan" or "fin";    *)
(* a "fin" value is m * 2^e with m odd and m < 2^24 (a normal number: no   *)
(* value of the model is subnormal or overflows).  Every operation rounds  *)
(* to nearest, ties to even, as IEEE 754 does.                             *)
(***************************************************************************)
RECURSIVE BitLen(_)
\* the number of bits of n: 0 for 0
BitLen(n) == IF n = 0 THEN 0 ELSE 1 + BitLen(n \div 2)

RECURSIVE OddPart(_)
\* n without its trailing zero bits (n > 0)
OddPart(n) == IF n % 2 = 0 THEN OddPart(n \div 2) ELSE n

RECURSIVE TrailingZeros(_)
\* the number of trailing zero bits of n (n > 0)
TrailingZeros(n) == IF n % 2 = 0 THEN 1 + TrailingZeros(n \div 2) ELSE 0

F32Zero == [k |-> "zero", m |-> 0, e |-> 0]

F32Inf == [k |-> "inf", m |-> 0, e |-> 0]

F32NaN == [k |-> "nan", m |-> 0, e |-> 0]

\* the f32 n * 2^e, for an integer n > 0 of at most 24 bits (or a power of two)
F32Exact(n, e) == [k |-> "fin", m |-> OddPart(n), e |-> e + TrailingZeros(n)]

\* the f32 nearest to n * 2^e, for an integer n > 0
RoundF32(n, e) ==
    LET b == BitLen(n) IN
    IF b <= 24
    THEN F32Exact(n, e)
    ELSE LET s    == b - 24
             q    == n \div 2^s
             r    == n % 2^s
             half == 2^(s - 1)
             up   == r > half \/ (r = half /\ q % 2 = 1)
         IN  F32Exact(IF up THEN q + 1 ELSE q, e + s)

\* `n as f32`
F32FromU32(n) == IF n = 0 THEN F32Zero ELSE RoundF32(n, 0)

\* the f32 nearest to (p / q) * 2^e, for integers p, q > 0
RoundQuotient(p, q, e) ==
    LET \* the shift that brings the quotient's integer part into 2^23 .. 2^24 - 1
        k0  == 24 + BitLen(q) - BitLen(p)
        k   == IF (p * 2^k0) \div q >= 2^24 THEN k0 - 1 ELSE k0
        n   == p * 2^k
        quo == n \div q
        rem == n % q
        up  == 2 * rem > q \/ (2 * rem = q /\ quo % 2 = 1)
    IN  F32Exact(IF up THEN quo + 1 ELSE quo, e - k)

\* a / b
F32Div(a, b) ==
    IF a.k = "nan" \/ b.k = "nan" THEN F32NaN
    ELSE IF a.k = "zero" THEN (IF b.k = "zero" THEN F32NaN ELSE F32Zero)
    ELSE IF a.k = "inf" THEN (IF b.k = "inf" THEN F32NaN ELSE F32Inf)
    ELSE IF b.k = "zero" THEN F32Inf
    ELSE IF b.k = "inf" THEN F32Zero
    ELSE RoundQuotient(a.m, b.m, a.e - b.e)

\* a * b
F32Mul(a, b) ==
    IF a.k = "nan" \/ b.k = "nan" THEN F32NaN
    ELSE IF a.k = "inf" THEN (IF b.k = "zero" THEN F32NaN ELSE F32Inf)
    ELSE IF b.k = "inf" THEN (IF a.k = "zero" THEN F32NaN ELSE F32Inf)
    ELSE IF a.k = "zero" \/ b.k = "zero" THEN F32Zero
    ELSE RoundF32(a.m * b.m, a.e + b.e)

\* a > b
F32Gt(a, b) ==
    IF a.k = "nan" \/ b.k = "nan" THEN FALSE
    ELSE IF a.k = "inf" THEN b.k # "inf"
    ELSE IF b.k = "inf" THEN FALSE
    ELSE IF a.k = "zero" THEN FALSE
    ELSE IF b.k = "zero" THEN TRUE
    ELSE LET ta == a.e + BitLen(a.m)
             tb == b.e + BitLen(b.m)
             lo == Min(a.e, b.e)
         IN  ta > tb \/ (ta = tb /\ a.m * 2^(a.e - lo) > b.m * 2^(b.e - lo))

\* `a as u32`: truncates, NaN gives 0, +inf saturates at u32::MAX
F32ToU32(a) ==
    IF a.k = "nan" \/ a.k = "zero" THEN 0
    ELSE IF a.k = "inf" THEN 65536 * 65536 - 1
    ELSE IF a.e >= 0 THEN a.m * 2^a.e
    ELSE IF 0 - a.e >= 24 THEN 0
    ELSE a.m \div 2^(0 - a.e)

(***************************************************************************)
(* ops/mod.rs: image_resized_size.  Sizes are <<width, height>>.           *)
(***************************************************************************)
\* mutant of ImageResizedSize: the aspect flag is ignored, the image is always fitted
ImageResizedSizeAlwaysFit(size, term_size, preserve_aspect) ==
    LET nwidth  == term_size[1]
        nheight == term_size[2] * 2
        width   == size[1]
        height  == size[2]
        ratio   == F32Div(F32FromU32(width), F32FromU32(height))
        nratio  == F32Div(F32FromU32(nwidth), F32FromU32(nheight))
        scale   == IF F32Gt(nratio, ratio)
                   THEN F32Div(F32FromU32(nheight), F32FromU32(height))
                   ELSE F32Div(F32FromU32(nwidth), F32FromU32(width))
    IN  <<F32ToU32(F32Mul(F32FromU32(width), scale)),
          F32ToU32(F32Mul(F32FromU32(height), scale))>>

ImageResizedSize(size, term_size, preserve_aspect) ==
    IF ~preserve_aspect
    THEN <<term_size[1], term_size[2] * 2>>
    ELSE LET nwidth  == term_size[1]
             nheight == term_size[2] * 2
             width   == size[1]
             height  == size[2]
             ratio   == F32Div(F32FromU32(width), F32FromU32(height))
             nratio  == F32Div(F32FromU32(nwidth), F32FromU32(nheight))
             scale   == IF F32Gt(nratio, ratio)
                        THEN F32Div(F32FromU32(nheight), F32FromU32(height))
                        ELSE F32Div(F32FromU32(nwidth), F32FromU32(width))
         IN  <<F32ToU32(F32Mul(F32FromU32(width), scale)),
               F32ToU32(F32Mul(F32FromU32(height), scale))>>

(***************************************************************************)
(* util.rs: the palettes, closest_colour, bg_colours_for.                  *)
(* A colour is <<r, g, b>>, a palette a sequence of colours; indices are   *)
(* the source's, from 0.                                                   *)
(***************************************************************************)
ANSI_COLOURS_WHITE_BG == <<
    <<238, 232, 213>>,
    <<220, 50, 47>>,
    <<133, 153, 0>>,
    <<181, 137, 0>>,
    <<38, 139, 210>>,
    <<211, 54, 130>>,
    <<42, 161, 152>>,
    <<7, 54, 66>>,
    <<253, 246, 227>>,
    <<203, 75, 22>>,
    <<147, 161, 161>>,
    <<131, 148, 150>>,
    <<101, 123, 131>>,
    <<108, 113, 196>>,
    <<88, 110, 117>>,
    <<0, 43, 54>> >>

ANSI_COLOURS_BLACK_BG == <<
    <<0, 0, 0>>,
    <<205, 0, 0>>,
    <<0, 205, 0>>,
    <<205, 205, 0>>,
    <<0, 0, 238>>,
    <<205, 0, 205>>,
    <<0, 205, 205>>,
    <<230, 230, 230>>,
    <<128, 128, 128>>,
    <<255, 0, 0>>,
    <<0, 255, 0>>,
    <<255, 255, 0>>,
    <<92, 92, 255>>,
    <<255, 0, 255>>,
    <<0, 255, 255>>,
    <<255, 255, 255>> >>

\* a + b, for a, b >= 0
F32Add(a, b) ==
    IF a.k = "nan" \/ b.k = "nan" THEN F32NaN
    ELSE IF a.k = "inf" \/ b.k = "inf" THEN F32Inf
    ELSE IF a.k = "zero" THEN b
    ELSE IF b.k = "zero" THEN a
    ELSE LET lo == Min(a.e, b.e)
         IN  RoundF32(a.m * 2^(a.e - lo) + b.m * 2^(b.e - lo), lo)

\* a - b, for finite a >= b >= 0
F32Sub(a, b) ==
    IF b.k = "zero" THEN a
    ELSE IF a = b THEN F32Zero
    ELSE LET lo == Min(a.e, b.e)
         IN  RoundF32(a.m * 2^(a.e - lo) - b.m * 2^(b.e - lo), lo)

\* (x as f32 - y as f32).powi(2), for u8 x and y: every step is exact
SqDiff(x, y) == F32FromU32((x - y) * (x - y))

\* the closure of closest_colour's map: the distance of rgb to `to`
Diff(rgb, to) ==
    LET r == F32Div(F32Add(F32FromU32(rgb[1]), F32FromU32(to[1])), F32FromU32(2))
    IN  F32Add(
            F32Add(
                F32Mul(F32Add(F32FromU32(2), F32Div(r, F32FromU32(256))),
                       SqDiff(rgb[1], to[1])),
                F32Mul(F32FromU32(4), SqDiff(rgb[2], to[2]))),
            F32Mul(F32Add(F32FromU32(2),
                          F32Div(F32Sub(F32FromU32(255), r), F32FromU32(256))),
                   SqDiff(rgb[3], to[3])))

\* mutant of DiffLess: the comparison is reversed, the sort is descending
DiffLessReversed(lhs, rhs) == F32Gt(lhs[1], rhs[1])

\* lhs_diff.partial_cmp(&rhs_diff) == Less (no distance is NaN)
DiffLess(lhs, rhs) == F32Gt(rhs[1], lhs[1])

RECURSIVE InsertSorted(_, _)
\* x, which followed every entry of `sorted` in the input, in its place in a stable
\* sort: after the entries that compare Less or Equal to it
InsertSorted(x, sorted) ==
    IF sorted = <<>> THEN <<x>>
    ELSE IF DiffLess(x, sorted[1])
    THEN <<x>> \o sorted
    ELSE <<sorted[1]>> \o InsertSorted(x, Tail(sorted))

RECURSIVE SortBy(_)
\* diffs.sort_by(..): a stable sort
SortBy(diffs) ==
    IF diffs = <<>> THEN <<>>
    ELSE InsertSorted(diffs[Len(diffs)], SortBy(SubSeq(diffs, 1, Len(diffs) - 1)))

\* diffs[0].1: the index of the first entry, a panic when there is none
FirstIndex(sorted) == IF sorted = <<>> THEN Panic ELSE Ok(sorted[1][2])

\* closest_colour: Ok with the index in tag, or a panic (diffs[0] of an empty palette)
ClosestColour(to, out_of) ==
    FirstIndex(SortBy(Collect([i \in 1..Len(out_of) |-> <<Diff(out_of[i], to), i - 1>>])))

\* mutant of BgColoursFor: the whole palette is the background palette
BgColoursForAll(foreground_colours) == [kind |-> "Ok", colours |-> foreground_colours]

\* bg_colours_for: &foreground_colours[0..8], [kind, colours]; the slice panics
\* when the palette has fewer than 8 entries
BgColoursFor(foreground_colours) ==
    IF Len(foreground_colours) < 8
    THEN [kind |-> "Panic", colours |-> <<>>]
    ELSE [kind |-> "Ok", colours |-> SubSeq(foreground_colours, 1, 8)]

(***************************************************************************)
(* ops/mod.rs: create_colourtable.                                         *)
(* An image is [w, h, px]: px[y + 1][x + 1] is the RGBA pixel <<r, g, b,   *)
(* a>> at (x, y).                                                          *)
(***************************************************************************)
\* img.dimensions()
Dimensions(image) == <<image.w, image.h>>

\* whether img.get_pixel(x, y) is in bounds (it panics when it is not)
InBounds(image, x, y) == x >= 0 /\ x < image.w /\ y >= 0 /\ y < image.h

\* img.get_pixel(x, y), in bounds
GetPixel(image, x, y) == image.px[y + 1][x + 1]

\* Pixel::to_rgb of an RGBA pixel
ToRgb(p) == <<p[1], p[2], p[3]>>

\* mutant of LowerY: the lower row is taken two rows below the upper one
LowerYSkip(upper_y) == upper_y + 2

\* let lower_y = upper_y + 1
LowerY(upper_y) == upper_y + 1

\* mutant of UpperY: the upper row of line y is row y
UpperYUnscaled(y) == y

\* let upper_y = y * 2
UpperY(y) == y * 2

\* mutant of TermH: the number of rows is rounded up
TermHCeil(height) == (height + 1) \div 2

\* let term_h = height / 2
TermH(height) == height \div 2

\* the i-th pixel (from 1) create_colourtable asks get_pixel for: the cells line by
\* line, in each cell the upper pixel and then the lower one
TableAsk(image, i) ==
    LET cell == (i - 1) \div 2
        x    == cell % image.w
        y    == cell \div image.w
    IN  IF (i - 1) % 2 = 0 THEN <<x, UpperY(y)>> ELSE <<x, LowerY(UpperY(y))>>

\* closest_colour(img.get_pixel(x, y).to_rgb(), colours) for each pixel asked, in
\* order: get_pixel panics out of bounds, closest_colour as ClosestColour does
TableMatches(image, upper_colours, lower_colours) ==
    Collect([i \in 1..(2 * image.w * TermH(image.h)) |->
        IF ~InBounds(image, TableAsk(image, i)[1], TableAsk(image, i)[2])
        THEN Panic
        ELSE ClosestColour(ToRgb(GetPixel(image, TableAsk(image, i)[1], TableAsk(image, i)[2])),
                           IF (i - 1) % 2 = 0 THEN upper_colours ELSE lower_colours)])

\* the position of the first panic among the matches, 0 when there is none
FirstPanic(matches) ==
    IF \E i \in 1..Len(matches) : matches[i].kind = "Panic"
    THEN CHOOSE i \in 1..Len(matches) :
            /\ matches[i].kind = "Panic"
            /\ \A j \in 1..(i - 1) : matches[j].kind # "Panic"
    ELSE 0

\* create_colourtable's outcome from the matches: it panics at the first panic,
\* having asked for the pixels up to that one, and collects the lines otherwise
TableOf(image, matches, stop) ==
    IF stop > 0
    THEN [kind |-> "Panic", table |-> <<>>,
          reads |-> { TableAsk(image, i) : i \in 1..stop }]
    ELSE [kind  |-> "Ok",
          table |-> [y \in 1..TermH(image.h) |->
                        [x \in 1..image.w |->
                            << matches[2 * ((y - 1) * image.w + x - 1) + 1].tag,
                               matches[2 * ((y - 1) * image.w + x - 1) + 2].tag >>]],
          reads |-> { TableAsk(image, i) : i \in 1..Len(matches) }]

\* the outcome, the matches computed once
TableFrom(image, matches) == TableOf(image, matches, FirstPanic(matches))

\* create_colourtable: [kind, table, reads]; table[y + 1][x + 1] is the pair
\* <<upper index, lower index>> of cell (x, y); reads are the pixels asked of
\* get_pixel before it returned or panicked
CreateColourtable(image, upper_colours, lower_colours) ==
    TableFrom(image, TableMatches(image, upper_colours, lower_colours))

(***************************************************************************)
(* The components at rest: a specification leaves the components it does   *)
(* not drive in these states.                                              *)
(***************************************************************************)
NoExt == [some |-> FALSE, utf8 |-> TRUE, s |-> <<>>]

NoFile == [display |-> "", stem |-> "", ext |-> NoExt, fs |-> [kind |-> "missing", bytes |-> <<>>]]

NoImage == [w |-> 0, h |-> 0, px |-> <<>>]

NoTable == [kind |-> "None", table |-> <<>>, reads |-> {}]

GuessIdle == gfile = NoFile /\ gres = NotCalled /\ gopens = 0 /\ gread = 0

SizeIdle == ssize = <<>> /\ sterm = <<>> /\ saspect = FALSE /\ sres = <<>>

ColourIdle == cto = <<>> /\ cpal = <<>> /\ cres = NotCalled

TableIdle == timg = NoImage /\ tupper = <<>> /\ tlower = <<>> /\ tres = NoTable

NoGlyph == [kind |-> "None", glyph |-> ""]

GlyphIdle == apix = <<>> /\ ares = NoGlyph

NoRender == [kind |-> "None", out |-> <<>>, reads |-> {}]

RenderIdle == wimg = NoImage /\ wfmt = "" /\ wres = NoRender

MainIdle ==
    /\ pc = "idle"
    /\ opts = [image |-> NoFile, size |-> <<>>, preserve_aspect |-> FALSE, ansi_out |-> ""]
    /\ merr = NotCalled
    /\ format = ""
    /\ img = NoImage
    /\ resized = NoImage
    /\ ran = <<>>
    /\ out = <<>>
    /\ errout = <<>>
    /\ exit = <<>>

(***************************************************************************)
(* SpecGuess: guess_format on every file of GuessInputs.                   *)
(***************************************************************************)
\* the longest padding after a file's first bytes: longer than the buffer with a magic before it
LongPad == 30

ToUpperChar(c) ==
    IF \E i \in 1..Len(LowerChars) : LowerChars[i] = c
    THEN UpperChars[CHOOSE i \in 1..Len(LowerChars) : LowerChars[i] = c]
    ELSE c

\* an extension in lower case, in upper case and capitalised
Cases(s) ==
    { s,
      [i \in 1..Len(s) |-> ToUpperChar(s[i])],
      [i \in 1..Len(s) |-> IF i = 1 THEN ToUpperChar(s[i]) ELSE s[i]] }

SupportedExts == UNION { Cases(ExtArms[i][1]) : i \in 1..Len(ExtArms) }

OtherExts ==
    { <<>>, <<"r", "s">>, <<"R", "S">>, <<"t", "x", "t">>, <<"p", "n">>,
      <<"p", "n", "g", "x">>, <<"s", "v", "g">>, <<"j", "p", "g", "2">> }

ExtPool ==
    { [some |-> TRUE, utf8 |-> TRUE, s |-> s] : s \in SupportedExts \cup OtherExts }
    \cup { NoExt, [some |-> TRUE, utf8 |-> FALSE, s |-> <<>>] }

\* the first bytes of src/ops/mod.rs: "//! Main"
TextBytes == <<47, 47, 33, 32, 77, 97, 105, 110>>

Pad(n) == [i \in 1..n |-> 65]

FileStarts == {PNG_MAGIC, JPEG_MAGIC, GIF_MAGIC, BMP_MAGIC, ICO_MAGIC, TextBytes}

\* every prefix of a magic (and of a text), followed by no, one or LongPad more bytes
BytesPool ==
    { Take(m, k) \o Pad(n) : m \in FileStarts, k \in 0..8, n \in {0, 1, LongPad} }

FsPool ==
    { [kind |-> "file", bytes |-> b] : b \in BytesPool }
    \cup { [kind |-> "missing", bytes |-> <<>>], [kind |-> "dir", bytes |-> <<>>] }

GuessInputs ==
    { [display |-> d, stem |-> "/abs/img", ext |-> e, fs |-> f] :
        d \in {"img", "../pics/img"}, e \in ExtPool, f \in FsPool }

InitGuess ==
    /\ gfile \in GuessInputs
    /\ gres = NotCalled
    /\ gopens = 0
    /\ gread = 0
    /\ SizeIdle /\ ColourIdle /\ TableIdle /\ GlyphIdle /\ RenderIdle /\ MainIdle

\* a call of guess_format(&gfile)
GuessFormat ==
    /\ gfile # NoFile
    /\ gres.kind = "None"
    /\ LET r == GuessFormatOf(gfile) IN
        /\ gres' = r.res
        /\ gopens' = r.opens
        /\ gread' = r.read
    /\ UNCHANGED <<gfile, sizeVars, colourVars, tableVars, glyphVars, renderVars, mainVars>>

NextGuess == GuessFormat

SpecGuess == InitGuess /\ [][NextGuess]_vars

(***************************************************************************)
(* SpecSize: image_resized_size on every size of SizeInputs.               *)
(***************************************************************************)
MaxSrc == 23

MaxCols == 7

MaxRows == 2

\* the example of the specification: plan((100, 50), (40, 25), true)
ExampleSize == [size |-> <<100, 50>>, term |-> <<40, 25>>]

\* source sizes from 0 x 0; terminal sizes from 1 x 1, as Options::size_validator accepts
SizeInputs ==
    { [size |-> <<w, h>>, term |-> <<c, r>>] :
        w \in 0..MaxSrc, h \in 0..MaxSrc, c \in 1..MaxCols, r \in 1..MaxRows }
    \cup {ExampleSize}

InitSize ==
    /\ \E i \in SizeInputs : ssize = i.size /\ sterm = i.term
    /\ saspect \in BOOLEAN
    /\ sres = <<>>
    /\ GuessIdle /\ ColourIdle /\ TableIdle /\ GlyphIdle /\ RenderIdle /\ MainIdle

\* a call of image_resized_size(ssize, sterm, saspect)
ImageResizedSizeCall ==
    /\ ssize # <<>>
    /\ sres = <<>>
    /\ sres' = ImageResizedSize(ssize, sterm, saspect)
    /\ UNCHANGED <<ssize, sterm, saspect, guessVars, colourVars, tableVars, glyphVars, renderVars, mainVars>>

NextSize == ImageResizedSizeCall

SpecSize == InitSize /\ [][NextSize]_vars

(***************************************************************************)
(* SpecColour: closest_colour on every colour of Targets and every palette *)
(* of Palettes.                                                            *)
(***************************************************************************)
MaxPalLen == 3

\* two pairs of distinct colours at the same distance of <<0, 100, 0>>, and two far ones
PoolColours == { <<0, 0, 0>>, <<255, 255, 255>>, <<0, 90, 0>>, <<0, 110, 0>>, <<205, 0, 0>> }

\* pairs of colours whose distances to the first two of NearTargets are equal, or
\* differ by 1/512, before rounding
NearPalettes ==
    { << <<16, 110, 38>>, <<94, 110, 38>> >>, << <<94, 110, 38>>, <<16, 110, 38>> >>,
      << <<114, 149, 242>>, <<114, 198, 153>> >>, << <<114, 198, 153>>, <<114, 149, 242>> >> }

NearTargets == { <<55, 9, 77>>, <<217, 30, 63>> }

Targets ==
    PoolColours \cup { <<0, 100, 0>>, <<128, 128, 128>>, <<254, 1, 77>> } \cup NearTargets
    \cup Range(ANSI_COLOURS_WHITE_BG) \cup Range(ANSI_COLOURS_BLACK_BG)

Palettes ==
    UNION { [1..n -> PoolColours] : n \in 0..MaxPalLen }
    \cup { ANSI_COLOURS_WHITE_BG, ANSI_COLOURS_BLACK_BG,
           BgColoursFor(ANSI_COLOURS_WHITE_BG).colours,
           BgColoursFor(ANSI_COLOURS_BLACK_BG).colours }
    \cup NearPalettes

InitColour ==
    /\ cto \in Targets
    /\ cpal \in Palettes
    /\ cres = NotCalled
    /\ GuessIdle /\ SizeIdle /\ TableIdle /\ GlyphIdle /\ RenderIdle /\ MainIdle

\* a call of closest_colour(cto, &cpal)
ClosestColourCall ==
    /\ cto # <<>>
    /\ cres.kind = "None"
    /\ cres' = ClosestColour(cto, cpal)
    /\ UNCHANGED <<cto, cpal, guessVars, sizeVars, tableVars, glyphVars, renderVars, mainVars>>

NextColour == ClosestColourCall

SpecColour == InitColour /\ [][NextColour]_vars

(***************************************************************************)
(* SpecTable: create_colourtable on every image of TableImages.            *)
(***************************************************************************)
MaxImgH == 5

\* the widths of the images: none, one and two columns
ImgWidths == {0, 1, 2}

\* opaque black, white, red and blue, a transparent orange
TablePixels ==
    << <<0, 0, 0, 255>>, <<255, 255, 255, 255>>, <<205, 0, 0, 255>>, <<0, 0, 238, 255>>,
       <<205, 96, 0, 0>> >>

\* the w x h image whose pixels, line by line, are every t-th of the pixels from
\* the one at s on, cyclically: one colour for t = 0, and for t = 1 lines that
\* differ from their neighbours
PatternImage(pixels, w, h, s, t) ==
    [w  |-> w,
     h  |-> h,
     px |-> [y \in 1..h |->
                [x \in 1..w |-> pixels[((((y - 1) * w + (x - 1)) * t + s) % Len(pixels)) + 1]]]]

PatternImages(pixels) ==
    { PatternImage(pixels, w, h, s, t) :
        w \in ImgWidths, h \in 0..MaxImgH, s \in 0..(Len(pixels) - 1), t \in {0, 1} }

\* every image of one column of the first two of the pixels
ColumnImages(pixels) ==
    UNION { { [w |-> 1, h |-> h, px |-> px] :
                px \in [1..h -> [1..1 -> {pixels[1], pixels[2]}]] } : h \in 0..MaxImgH }

TableImages == PatternImages(TablePixels) \cup ColumnImages(TablePixels)

\* <<upper_colours, lower_colours>>: as write_ansi passes them, two short ones, none
TablePalettes ==
    { <<ANSI_COLOURS_BLACK_BG, BgColoursFor(ANSI_COLOURS_BLACK_BG).colours>>,
      <<ANSI_COLOURS_WHITE_BG, BgColoursFor(ANSI_COLOURS_WHITE_BG).colours>>,
      << << <<255, 255, 255>>, <<0, 0, 0>> >>, << <<0, 0, 0>>, <<0, 0, 0>>, <<255, 255, 255>> >> >>,
      << <<>>, <<>> >> }

InitTable ==
    /\ timg \in TableImages
    /\ \E p \in TablePalettes : tupper = p[1] /\ tlower = p[2]
    /\ tres = NoTable
    /\ GuessIdle /\ SizeIdle /\ ColourIdle /\ GlyphIdle /\ RenderIdle /\ MainIdle

\* a call of create_colourtable(&timg, &tupper, &tlower)
CreateColourtableCall ==
    /\ tres.kind = "None"
    /\ tres' = CreateColourtable(timg, tupper, tlower)
    /\ UNCHANGED <<timg, tupper, tlower, guessVars, sizeVars, colourVars, glyphVars, renderVars, mainVars>>

NextTable == CreateColourtableCall

SpecTable == InitTable /\ [][NextTable]_vars

(***************************************************************************)
(* ops/mod.rs: load_image, resize_image and the renderers; error.rs.       *)
(*                                                                         *)
(* The decoder (image::load) and the resampler (resize_exact) belong to    *)
(* the image crate.  A file's fs says what the decoder makes of it: it is  *)
(* a valid image of format fs.valid ("None": of no format) and decodes to  *)
(* fs.pic.  The resampler picks, for each pixel of the new size, the       *)
(* source pixel under its centre.                                          *)
(* What is written to a stream is a sequence of strings, one for each      *)
(* write!, print! or println!.                                             *)
(***************************************************************************)
\* load_image: [res, image]
LoadImageOf(file, fmt) ==
    IF OpenFails(file)
    THEN [res |-> Err("OpeningImageFailed", file.display), image |-> NoImage]
    ELSE IF file.fs.kind = "file" /\ file.fs.valid = fmt
    THEN [res |-> Ok(fmt), image |-> file.fs.pic]
    ELSE [res |-> Panic, image |-> NoImage]

\* resize_image: img.resize_exact(size.0, size.1, FilterType::Nearest)
ResizeImage(image, size) ==
    [w  |-> size[1],
     h  |-> size[2],
     px |-> IF size[1] = 0 \/ size[2] = 0
            THEN [y \in 1..size[2] |-> <<>>]
            ELSE [y \in 1..size[2] |->
                    [x \in 1..size[1] |->
                        image.px[((2 * y - 1) * image.h) \div (2 * size[2]) + 1]
                                [((2 * x - 1) * image.w) \div (2 * size[1]) + 1]]]]

ANSI_COLOUR_ESCAPES == <<
    "\\x1B[0;30m", "\\x1B[0;31m", "\\x1B[0;32m", "\\x1B[0;33m",
    "\\x1B[0;34m", "\\x1B[0;35m", "\\x1B[0;36m", "\\x1B[0;37m",
    "\\x1B[1;30m", "\\x1B[1;31m", "\\x1B[1;32m", "\\x1B[1;33m",
    "\\x1B[1;34m", "\\x1B[1;35m", "\\x1B[1;36m", "\\x1B[1;37m" >>

ANSI_BG_COLOUR_ESCAPES == <<
    "\\x1B[40m", "\\x1B[41m", "\\x1B[42m", "\\x1B[43m",
    "\\x1B[44m", "\\x1B[45m", "\\x1B[46m", "\\x1B[47m" >>

ANSI_RESET_ATTRIBUTES == "\\x1B[0m"

\* what write_ansi iterates over: per line of the table its cells, then <<>> for
\* the writeln! of the reset
AnsiLines(table) ==
    [y \in 1..Len(table) |->
        [x \in 1..(Len(table[y]) + 1) |->
            IF x <= Len(table[y]) THEN table[y][x] ELSE <<>>]]

RECURSIVE Flatten(_)
\* the strings of the lines, in order
Flatten(lines) ==
    IF lines = <<>> THEN <<>>
    ELSE Flatten(SubSeq(lines, 1, Len(lines) - 1)) \o lines[Len(lines)]

\* whether ANSI_COLOUR_ESCAPES[upper_clr] and ANSI_BG_COLOUR_ESCAPES[lower_clr] of
\* a cell are in range (an index out of range panics); the reset has no lookup
EscapesInRange(cell) ==
    \/ cell = <<>>
    \/ /\ cell[1] < Len(ANSI_COLOUR_ESCAPES)
       /\ cell[2] < Len(ANSI_BG_COLOUR_ESCAPES)

\* the string of one write! or writeln! of write_ansi
AnsiText(cell) ==
    IF cell = <<>>
    THEN ANSI_RESET_ATTRIBUTES \o "\n"
    ELSE ANSI_COLOUR_ESCAPES[cell[1] + 1] \o ANSI_BG_COLOUR_ESCAPES[cell[2] + 1]
         \o "\\u{2580}"

\* the position of the first cell whose lookup panics, 0 when there is none
FirstOutOfRange(cells) ==
    IF \E i \in 1..Len(cells) : ~EscapesInRange(cells[i])
    THEN CHOOSE i \in 1..Len(cells) :
            /\ ~EscapesInRange(cells[i])
            /\ \A j \in 1..(i - 1) : EscapesInRange(cells[j])
    ELSE 0

\* what the loops of write_ansi write: everything, or what precedes the first panic
AnsiWritten(cells, stop, reads) ==
    [kind  |-> IF stop = 0 THEN "Ok" ELSE "Panic",
     out   |-> [i \in 1..(IF stop = 0 THEN Len(cells) ELSE stop - 1) |-> AnsiText(cells[i])],
     reads |-> reads]

\* the loops of write_ansi over the cells
AnsiLoop(cells, reads) == AnsiWritten(cells, FirstOutOfRange(cells), reads)

\* write_ansi once create_colourtable has returned or panicked
WriteAnsiTable(t) ==
    IF t.kind = "Panic"
    THEN [kind |-> "Panic", out |-> <<>>, reads |-> t.reads]
    ELSE AnsiLoop(Flatten(Collect(AnsiLines(t.table))), t.reads)

\* write_ansi once bg_colours_for has returned or panicked
WriteAnsiWith(image, foreground_colours, lower_colours) ==
    IF lower_colours.kind = "Panic"
    THEN [kind |-> "Panic", out |-> <<>>, reads |-> {}]
    ELSE WriteAnsiTable(CreateColourtable(image, foreground_colours, lower_colours.colours))

\* write_ansi: [kind, out, reads]; out is what was written when it returned or
\* panicked (in bg_colours_for, in create_colourtable or in an escape lookup)
WriteAnsi(image, foreground_colours) ==
    WriteAnsiWith(image, foreground_colours, BgColoursFor(foreground_colours))

\* mutant of TruecolorUpperY: the upper row of output row y is row y
TruecolorUpperYUnscaled(y) == y

\* write_ansi_truecolor: let upper_y = y * 2
TruecolorUpperY(y) == y * 2

\* write_ansi_truecolor: let lower_y = upper_y + 1
TruecolorLowerY(upper_y) == upper_y + 1

\* mutant of TruecolorCell: the lower pixel is the foreground, the upper one the background
TruecolorCellSwapped(upper_pixel, lower_pixel) ==
    "\\x1B[38;2;" \o ToString(lower_pixel[1]) \o ";" \o ToString(lower_pixel[2])
        \o ";" \o ToString(lower_pixel[3]) \o "m"
    \o "\\x1B[48;2;" \o ToString(upper_pixel[1]) \o ";" \o ToString(upper_pixel[2])
        \o ";" \o ToString(upper_pixel[3]) \o "m\\u{2580}"

\* one cell of write_ansi_truecolor
TruecolorCell(upper_pixel, lower_pixel) ==
    "\\x1B[38;2;" \o ToString(upper_pixel[1]) \o ";" \o ToString(upper_pixel[2])
        \o ";" \o ToString(upper_pixel[3]) \o "m"
    \o "\\x1B[48;2;" \o ToString(lower_pixel[1]) \o ";" \o ToString(lower_pixel[2])
        \o ";" \o ToString(lower_pixel[3]) \o "m\\u{2580}"

\* write_ansi_truecolor: [kind, out]
WriteAnsiTruecolor(image) ==
    LET width  == Dimensions(image)[1]
        height == Dimensions(image)[2]
        term_h == height \div 2
    IN  [kind |-> "Ok",
         out  |-> Flatten(Collect(
                    [y \in 1..term_h |->
                        [x \in 1..(width + 1) |->
                            IF x <= width
                            THEN TruecolorCell(
                                    ToRgb(GetPixel(image, x - 1, TruecolorUpperY(y - 1))),
                                    ToRgb(GetPixel(image, x - 1,
                                                   TruecolorLowerY(TruecolorUpperY(y - 1)))))
                            ELSE ANSI_RESET_ATTRIBUTES \o "\n"]]))]

\* get_str_ascii
GetStrAscii(intent) ==
    LET index == intent \div 32
        ascii == <<" ", ".", ",", "-", "~", "+", "=", "@">>
    IN  ascii[index + 1]

\* pix[0]/3 + pix[1]/3 + pix[2]/3 before it is stored in a u8
AsciiSum(pix) == (pix[1] \div 3) + (pix[2] \div 3) + (pix[3] \div 3)

\* mutant of AsciiGlyph: the alpha channel is not looked at
AsciiGlyphOpaque(pix) == GetStrAscii(AsciiSum(pix))

\* the glyph write_ascii prints for a pixel
AsciiGlyph(pix) ==
    LET intent == IF pix[4] = 0 THEN 0
                  ELSE (pix[1] \div 3) + (pix[2] \div 3) + (pix[3] \div 3)
    IN  GetStrAscii(intent)

\* one iteration of write_ascii on an even row: [kind, glyph]; the u8 sum overflows
\* above 255 (a panic or a wrapped value, by the build) and ascii[index] panics
\* above 7
AsciiCell(pix) ==
    IF AsciiSum(pix) > 255
    THEN [kind |-> "Overflow", glyph |-> ""]
    ELSE IF (IF pix[4] = 0 THEN 0 ELSE AsciiSum(pix)) \div 32 > 7
    THEN [kind |-> "Panic", glyph |-> ""]
    ELSE [kind |-> "Ok", glyph |-> AsciiGlyph(pix)]

\* the pixels write_ascii asks get_pixel for
AsciiReads(image) ==
    { <<x, y>> : x \in 0..(image.w - 1), y \in { r \in 0..(image.h - 1) : r % 2 = 0 } }

\* the pixels write_ansi_truecolor asks get_pixel for
TruecolorReads(image) ==
    UNION { { <<x, TruecolorUpperY(y)>>, <<x, TruecolorLowerY(TruecolorUpperY(y))>> } :
            x \in 0..(image.w - 1), y \in 0..((image.h \div 2) - 1) }

\* write_ascii: [kind, out]; the dimensions, then for each even row its glyphs and a line break
WriteAscii(image) ==
    LET width  == Dimensions(image)[1]
        height == Dimensions(image)[2]
    IN  [kind |-> "Ok",
         out  |-> <<"(" \o ToString(width) \o ", " \o ToString(height) \o ")\n">>
                  \o Flatten(Collect(
                        [y \in 1..height |->
                            IF (y - 1) % 2 = 0
                            THEN [x \in 1..(width + 1) |->
                                    IF x <= width
                                    THEN AsciiGlyph(GetPixel(image, x - 1, y - 1))
                                    ELSE "\n"]
                            ELSE <<>>]))]

\* enum AnsiOutputFormat
AnsiOutputFormats == {"Truecolor", "SimpleBlack", "SimpleWhite", "ASCII"}

\* the match on opts.ansi_out in result_main
Render(image, ansi_out) ==
    IF ansi_out = "Truecolor" THEN WriteAnsiTruecolor(image)
    ELSE IF ansi_out = "SimpleWhite" THEN WriteAnsi(image, ANSI_COLOURS_WHITE_BG)
    ELSE IF ansi_out = "SimpleBlack" THEN WriteAnsi(image, ANSI_COLOURS_BLACK_BG)
    ELSE WriteAscii(image)

\* the name of the renderer the match calls
Renderer(ansi_out) ==
    IF ansi_out = "Truecolor" THEN "write_ansi_truecolor"
    ELSE IF ansi_out = "ASCII" THEN "write_ascii"
    ELSE "write_ansi"

\* Error::print_error
PrintError(e) ==
    IF e.err = "GuessingFormatFailed"
    THEN "Failed to guess format of \"" \o e.name \o "\".\n"
    ELSE "Failed to open image file \"" \o e.name \o "\".\n"

\* mutant of ExitValue: the two exit values are swapped
ExitValueSwapped(e) == IF e.err = "GuessingFormatFailed" THEN 2 ELSE 1

\* Error::exit_value
ExitValue(e) == IF e.err = "GuessingFormatFailed" THEN 1 ELSE 2

(***************************************************************************)
(* SpecGlyph: one iteration of write_ascii on every pixel of GlyphPixels.  *)
(***************************************************************************)
ChannelStep == 32

\* channel values around every multiple of ChannelStep, and the highest ones
Channels == { c \in 0..255 : c % ChannelStep <= 2 \/ c >= 253 }

Alphas == {0, 1, 255}

GlyphPixels == { <<r, g, b, a>> : r \in Channels, g \in Channels, b \in Channels, a \in Alphas }

InitGlyph ==
    /\ apix \in GlyphPixels
    /\ ares = NoGlyph
    /\ GuessIdle /\ SizeIdle /\ ColourIdle /\ TableIdle /\ RenderIdle /\ MainIdle

\* the body of write_ascii's loops for pix = apix on an even row
AsciiCellPrint ==
    /\ ares.kind = "None"
    /\ ares' = AsciiCell(apix)
    /\ UNCHANGED <<apix, guessVars, sizeVars, colourVars, tableVars, renderVars, mainVars>>

NextGlyph == AsciiCellPrint

SpecGlyph == InitGlyph /\ [][NextGlyph]_vars

(***************************************************************************)
(* SpecRender: each renderer on every image of RenderImages.               *)
(***************************************************************************)
\* opaque white, a transparent orange, opaque red, blue and black
RenderPixels ==
    << <<255, 255, 255, 255>>, <<205, 96, 0, 0>>, <<205, 0, 0, 255>>, <<0, 0, 238, 255>>,
       <<0, 0, 0, 255>> >>

RenderImages == PatternImages(RenderPixels) \cup ColumnImages(RenderPixels)

\* the palette result_main passes to write_ansi
PaletteOf(ansi_out) ==
    IF ansi_out = "SimpleWhite" THEN ANSI_COLOURS_WHITE_BG ELSE ANSI_COLOURS_BLACK_BG

\* a renderer's outcome: a get_pixel out of bounds is a panic
RenderOutcome(image, r, reads) ==
    IF \E p \in reads : ~InBounds(image, p[1], p[2])
    THEN [kind |-> "Panic", out |-> <<>>, reads |-> reads]
    ELSE [kind |-> r.kind, out |-> r.out, reads |-> reads]

InitRender ==
    /\ wimg \in RenderImages
    /\ wfmt \in AnsiOutputFormats
    /\ wres = NoRender
    /\ GuessIdle /\ SizeIdle /\ ColourIdle /\ TableIdle /\ GlyphIdle /\ MainIdle

\* a call of write_ansi(&mut out, &wimg, &palette)
WriteAnsiCall ==
    /\ wfmt \in {"SimpleWhite", "SimpleBlack"}
    /\ wres.kind = "None"
    /\ wres' = WriteAnsi(wimg, PaletteOf(wfmt))
    /\ UNCHANGED <<wimg, wfmt, guessVars, sizeVars, colourVars, tableVars, glyphVars, mainVars>>

\* a call of write_ansi_truecolor(&mut out, &wimg)
WriteAnsiTruecolorCall ==
    /\ wfmt = "Truecolor"
    /\ wres.kind = "None"
    /\ wres' = RenderOutcome(wimg, WriteAnsiTruecolor(wimg), TruecolorReads(wimg))
    /\ UNCHANGED <<wimg, wfmt, guessVars, sizeVars, colourVars, tableVars, glyphVars, mainVars>>

\* a call of write_ascii(&wimg)
WriteAsciiCall ==
    /\ wfmt = "ASCII"
    /\ wres.kind = "None"
    /\ wres' = RenderOutcome(wimg, WriteAscii(wimg), AsciiReads(wimg))
    /\ UNCHANGED <<wimg, wfmt, guessVars, sizeVars, colourVars, tableVars, glyphVars, mainVars>>

NextRender ==
    \/ WriteAnsiCall
    \/ WriteAnsiTruecolorCall
    \/ WriteAsciiCall

SpecRender == InitRender /\ [][NextRender]_vars

(***************************************************************************)
(* Spec: main, from the Options that Options::parse returned to the exit   *)
(* of the process.                                                         *)
(*   pc: "guess", "load", "resize", "render" the next call of result_main; *)
(*       "ok", "err" result_main has returned; "exited" process::exit was  *)
(*       called; "panicked" an unwrap() panicked.                          *)
(***************************************************************************)
Pixel(r, g, b, a) == <<r, g, b, a>>

\* a solid white opaque 2 x 2 image; a 3 x 2 image with a transparent pixel; one black pixel
MainPics ==
    { [w |-> 2, h |-> 2,
       px |-> << <<Pixel(255, 255, 255, 255), Pixel(255, 255, 255, 255)>>,
                 <<Pixel(255, 255, 255, 255), Pixel(255, 255, 255, 255)>> >>],
      [w |-> 3, h |-> 2,
       px |-> << <<Pixel(205, 0, 0, 255), Pixel(0, 0, 238, 255), Pixel(9, 9, 9, 0)>>,
                 <<Pixel(0, 205, 0, 255), Pixel(128, 128, 128, 255), Pixel(255, 255, 0, 255)>> >>],
      [w |-> 1, h |-> 1, px |-> << <<Pixel(0, 0, 0, 255)>> >>] }

\* what is at opts.image.1: images, a text, a cut PNG, a directory, a file that cannot be opened
MainFsPool ==
    { [kind |-> "file", bytes |-> PNG_MAGIC \o Pad(LongPad), valid |-> "Png", pic |-> p] :
        p \in MainPics }
    \cup { [kind |-> "file", bytes |-> JPEG_MAGIC \o Pad(LongPad), valid |-> "Jpeg", pic |-> p] :
        p \in MainPics }
    \cup { [kind |-> "file", bytes |-> TextBytes, valid |-> "None", pic |-> NoImage],
           [kind |-> "file", bytes |-> PNG_MAGIC, valid |-> "None", pic |-> NoImage],
           [kind |-> "dir", bytes |-> <<>>, valid |-> "None", pic |-> NoImage],
           [kind |-> "noperm", bytes |-> <<>>, valid |-> "None", pic |-> NoImage] }

MainExts ==
    { NoExt } \cup
    { [some |-> TRUE, utf8 |-> TRUE, s |-> e] :
        e \in { <<"p", "n", "g">>, <<"J", "P", "G">>, <<"r", "s">> } }

MainSizes == { <<1, 1>>, <<2, 1>>, <<3, 2>> }

Init ==
    /\ pc = "guess"
    /\ opts \in
        { [image |-> [display |-> d, stem |-> "/abs/pic", ext |-> e, fs |-> f],
           size |-> z, preserve_aspect |-> a, ansi_out |-> o] :
            d \in {"pic", "../pic"}, e \in MainExts, f \in MainFsPool,
            z \in MainSizes, a \in BOOLEAN, o \in AnsiOutputFormats }
    /\ merr = NotCalled
    /\ format = ""
    /\ img = NoImage
    /\ resized = NoImage
    /\ ran = <<>>
    /\ out = <<>>
    /\ errout = <<>>
    /\ exit = <<>>
    /\ GuessIdle /\ SizeIdle /\ ColourIdle /\ TableIdle /\ GlyphIdle /\ RenderIdle

\* let format = guess_format(&opts.image)?;
MainGuessFormat ==
    /\ pc = "guess"
    /\ ran' = Append(ran, "guess_format")
    /\ LET r == GuessFormatOf(opts.image).res IN
        /\ pc' = IF r.kind = "Ok" THEN "load" ELSE IF r.kind = "Err" THEN "err" ELSE "panicked"
        /\ format' = IF r.kind = "Ok" THEN r.tag ELSE format
        /\ merr' = IF r.kind = "Err" THEN r ELSE merr
        /\ errout' = IF r.kind = "Panic" THEN Append(errout, "thread 'main' panicked") ELSE errout
    /\ UNCHANGED <<opts, img, resized, out, exit, guessVars, sizeVars, colourVars, tableVars, glyphVars, renderVars>>

\* let img = load_image(&opts.image, format)?;
MainLoadImage ==
    /\ pc = "load"
    /\ ran' = Append(ran, "load_image")
    /\ LET r == LoadImageOf(opts.image, format) IN
        /\ pc' = IF r.res.kind = "Ok" THEN "resize"
                 ELSE IF r.res.kind = "Err" THEN "err" ELSE "panicked"
        /\ img' = r.image
        /\ merr' = IF r.res.kind = "Err" THEN r.res ELSE merr
        /\ errout' = IF r.res.kind = "Panic"
                     THEN Append(errout, "thread 'main' panicked") ELSE errout
    /\ UNCHANGED <<opts, format, resized, out, exit, guessVars, sizeVars, colourVars, tableVars, glyphVars, renderVars>>

\* let img_s = image_resized_size(..); let resized = resize_image(&img, img_s);
MainResize ==
    /\ pc = "resize"
    /\ ran' = ran \o <<"image_resized_size", "resize_image">>
    /\ resized' = ResizeImage(img, ImageResizedSize(Dimensions(img), opts.size,
                                                    opts.preserve_aspect))
    /\ pc' = "render"
    /\ UNCHANGED <<opts, merr, format, img, out, errout, exit,
                   guessVars, sizeVars, colourVars, tableVars, glyphVars, renderVars>>

\* the match on opts.ansi_out, out.flush(), Ok(())
MainRender ==
    /\ pc = "render"
    /\ ran' = Append(ran, Renderer(opts.ansi_out))
    /\ LET r == Render(resized, opts.ansi_out) IN
        /\ out' = out \o r.out
        /\ pc' = IF r.kind = "Ok" THEN "ok" ELSE "panicked"
        /\ errout' = IF r.kind = "Panic"
                     THEN Append(errout, "thread 'main' panicked") ELSE errout
    /\ UNCHANGED <<opts, merr, format, img, resized, exit,
                   guessVars, sizeVars, colourVars, tableVars, glyphVars, renderVars>>

\* actual_main's else branch and main's exit(result)
MainExitOk ==
    /\ pc = "ok"
    /\ exit' = <<0>>
    /\ pc' = "exited"
    /\ UNCHANGED <<opts, merr, format, img, resized, ran, out, errout,
                   guessVars, sizeVars, colourVars, tableVars, glyphVars, renderVars>>

\* actual_main's if let Err(err) branch and main's exit(result)
MainExitErr ==
    /\ pc = "err"
    /\ errout' = Append(errout, PrintError(merr))
    /\ exit' = <<ExitValue(merr)>>
    /\ pc' = "exited"
    /\ UNCHANGED <<opts, merr, format, img, resized, ran, out,
                   guessVars, sizeVars, colourVars, tableVars, glyphVars, renderVars>>

Next ==
    \/ MainGuessFormat
    \/ MainLoadImage
    \/ MainResize
    \/ MainRender
    \/ MainExitOk
    \/ MainExitErr

Spec == Init /\ [][Next]_vars

(***************************************************************************)
(* Claims about guess_format (SpecGuess).                                  *)
(***************************************************************************)
\* the supported table as the specification lists it: extension, format
SupportedTable ==
    { << <<"p", "n", "g">>, "Png" >>,
      << <<"j", "p", "g">>, "Jpeg" >>, << <<"j", "p", "e", "g">>, "Jpeg" >>,
      << <<"j", "p", "e">>, "Jpeg" >>, << <<"j", "i", "f">>, "Jpeg" >>,
      << <<"j", "f", "i", "f">>, "Jpeg" >>, << <<"j", "f", "i">>, "Jpeg" >>,
      << <<"g", "i", "f">>, "Gif" >>,
      << <<"w", "e", "b", "p">>, "WebP" >>,
      << <<"p", "p", "m">>, "Pnm" >>,
      << <<"t", "i", "f", "f">>, "Tiff" >>, << <<"t", "i", "f">>, "Tiff" >>,
      << <<"t", "g", "a">>, "Tga" >>,
      << <<"b", "m", "p">>, "Bmp" >>, << <<"d", "i", "b">>, "Bmp" >>,
      << <<"i", "c", "o">>, "Ico" >>,
      << <<"h", "d", "r">>, "Hdr" >> }

\* the extension of gfile, lower-cased, is in the supported table
GuessSupported ==
    /\ gfile.ext.some
    /\ gfile.ext.utf8
    /\ \E p \in SupportedTable : p[1] = ToLowercase(gfile.ext.s)

GuessCalled == gres.kind # "None"

\* C1: for a path whose lower-cased extension is in the supported table,
\* guess_format returns the mapped format without opening or reading the file,
\* whatever the file is (missing, a directory, any bytes).
C1_ExtensionAuthoritative ==
    (GuessCalled /\ GuessSupported) =>
        /\ \E p \in SupportedTable :
                p[1] = ToLowercase(gfile.ext.s) /\ gres = Ok(p[2])
        /\ gopens = 0
        /\ gread = 0

\* C1 witness: IMG.PNG does not exist and is guessed Png
C1_Witness ==
    /\ GuessCalled
    /\ gfile.ext.s = <<"P", "N", "G">>
    /\ gfile.fs.kind = "missing"
    /\ gres = Ok("Png")
    /\ gopens = 0

\* the magics in the order the claim gives: PNG, JPEG, GIF, BMP, ICO
ClaimMagics ==
    << <<PNG_MAGIC, "Png">>, <<JPEG_MAGIC, "Jpeg">>, <<GIF_MAGIC, "Gif">>,
       <<BMP_MAGIC, "Bmp">>, <<ICO_MAGIC, "Ico">> >>

\* m is a prefix of b
IsPrefix(m, b) == Len(m) <= Len(b) /\ \A i \in 1..Len(m) : b[i] = m[i]

\* what C2 says guess_format returns when the extension decides nothing
ClaimFallback(file) ==
    IF file.fs.kind \in {"missing", "noperm"}
    THEN Err("OpeningImageFailed", file.display)
    ELSE LET b    == Take(file.fs.bytes, 32)
             hits == {i \in 1..Len(ClaimMagics) : IsPrefix(ClaimMagics[i][1], b)}
         IN  IF hits = {}
             THEN Err("GuessingFormatFailed", file.display)
             ELSE Ok(ClaimMagics[CHOOSE i \in hits : \A j \in hits : i <= j][2])

\* C2 (as claimed): with no extension, or one outside the supported table,
\* guess_format reads at most 32 bytes and returns the first magic that is a
\* prefix of them, GuessingFormatFailed(display name) when there is none, and
\* OpeningImageFailed(display name) when the file cannot be opened.
\* Violated: a directory opens, its read fails, and guess_format panics.
C2_MagicFallback ==
    (GuessCalled /\ gfile.ext.utf8 /\ ~GuessSupported) =>
        /\ gread <= 32
        /\ gres = ClaimFallback(gfile)

\* C2 holds of the files that can be read, and of those that cannot be opened
C2_MagicFallbackOfReadableFiles ==
    (GuessCalled /\ gfile.ext.utf8 /\ ~GuessSupported /\ gfile.fs.kind # "dir") =>
        /\ gread <= 32
        /\ gread = Min(32, Len(gfile.fs.bytes))
        /\ gopens = 1
        /\ gres = ClaimFallback(gfile)

(***************************************************************************)
(* Claims about image_resized_size (SpecSize).                             *)
(***************************************************************************)
SizeCalled == sres # <<>>

\* C3 (as claimed): the height image_resized_size returns is even.
\* Violated: with preserve_aspect the height is the truncated scaled height.
C3_HeightEven ==
    (SizeCalled /\ ssize[1] > 0 /\ ssize[2] > 0) => sres[2] % 2 = 0

\* the height binds: cols / (2 * rows) > width / height
HeightBinds == sterm[1] * ssize[2] > 2 * sterm[2] * ssize[1]

\* C4 (as claimed): with preserve_aspect and non-zero sizes the result fits
\* (cols, 2 * rows), the binding dimension is met exactly, the other is the
\* source dimension times the same scale, truncated; (100, 50) in (40, 25)
\* gives (40, 20).
\* Violated: the f32 product width * (cols / width) can fall below cols.
C4_AspectFit ==
    (SizeCalled /\ saspect /\ ssize[1] > 0 /\ ssize[2] > 0) =>
        /\ sres[1] <= sterm[1]
        /\ sres[2] <= 2 * sterm[2]
        /\ IF HeightBinds
           THEN /\ sres[2] = 2 * sterm[2]
                /\ sres[1] = (ssize[1] * 2 * sterm[2]) \div ssize[2]
           ELSE /\ sres[1] = sterm[1]
                /\ sres[2] = (ssize[2] * sterm[1]) \div ssize[1]
        /\ (ssize = <<100, 50>> /\ sterm = <<40, 25>>) => sres = <<40, 20>>

\* the parts of C4 that hold: the result fits the box, and the example
C4_FitsBox ==
    (SizeCalled /\ saspect /\ ssize[1] > 0 /\ ssize[2] > 0) =>
        /\ sres[1] <= sterm[1]
        /\ sres[2] <= 2 * sterm[2]
        /\ (ssize = <<100, 50>> /\ sterm = <<40, 25>>) => sres = <<40, 20>>

\* C5: without preserve_aspect the result is exactly (cols, rows * 2), for
\* every source size, a zero dimension included.
C5_NoAspect ==
    (SizeCalled /\ ~saspect) => sres = <<sterm[1], sterm[2] * 2>>

\* C5 witness: a 0 x 5 source, stretched to 7 x 2 cells
C5_Witness ==
    /\ SizeCalled
    /\ ~saspect
    /\ ssize = <<0, 5>>
    /\ sterm = <<7, 2>>
    /\ sres = <<7, 4>>

(***************************************************************************)
(* Claims about closest_colour (SpecColour).                               *)
(***************************************************************************)
ColourCalled == cres.kind # "None"

\* the distance of palette entry i (from 0) to cto
DiffOf(i) == Diff(cpal[i + 1], cto)

\* 512 times the redmean distance (2 + r/256) dR^2 + 4 dG^2 + (2 + (255 - r)/256) dB^2,
\* r = (c.R + t.R) / 2, of palette entry i (from 0) to cto: an integer
RedMean512(i) ==
    LET c == cpal[i + 1]
        s == c[1] + cto[1]
    IN  (1024 + s) * (c[1] - cto[1]) * (c[1] - cto[1])
        + 2048 * (c[2] - cto[2]) * (c[2] - cto[2])
        + (1534 - s) * (c[3] - cto[3]) * (c[3] - cto[3])

\* C6 (as claimed): for a non-empty palette closest_colour returns an index of the
\* palette whose redmean distance to the pixel is minimal over all entries, the
\* lowest of the indices at the minimal distance.
\* Violated: the distances are rounded to f32 before they are compared.
C6_ClosestIsFirstMinimum ==
    (ColourCalled /\ cpal # <<>>) =>
        /\ cres.kind = "Ok"
        /\ cres.tag \in 0..(Len(cpal) - 1)
        /\ \A j \in 0..(Len(cpal) - 1) : RedMean512(cres.tag) <= RedMean512(j)
        /\ \A j \in 0..(cres.tag - 1) : RedMean512(j) > RedMean512(cres.tag)

\* what the code does: the same with the distance as the closure computes it in f32
C6_ClosestIsFirstMinimumInF32 ==
    (ColourCalled /\ cpal # <<>>) =>
        /\ cres.kind = "Ok"
        /\ cres.tag \in 0..(Len(cpal) - 1)
        /\ \A j \in 0..(Len(cpal) - 1) : ~F32Gt(DiffOf(cres.tag), DiffOf(j))
        /\ \A j \in 0..(cres.tag - 1) : F32Gt(DiffOf(j), DiffOf(cres.tag))

\* the nearer of two colours is not returned: 160004.38671875 rounds to 160004.390625,
\* 160004.388671875 to 160004.375
C6_NearerEntryLoses ==
    /\ ColourCalled
    /\ cto = <<217, 30, 63>>
    /\ cpal = << <<114, 149, 242>>, <<114, 198, 153>> >>
    /\ RedMean512(0) < RedMean512(1)
    /\ cres = Ok(1)

\* two colours at the same distance, and the second is returned
C6_TieLostByFirst ==
    /\ ColourCalled
    /\ cto = <<55, 9, 77>>
    /\ cpal = << <<16, 110, 38>>, <<94, 110, 38>> >>
    /\ RedMean512(0) = RedMean512(1)
    /\ cres = Ok(1)

NoDuplicates(pal) == \A i, j \in 1..Len(pal) : pal[i] = pal[j] => i = j

\* C7: in a palette without duplicate colours, entry i is closest to itself.
C7_SelfClosest ==
    (ColourCalled /\ NoDuplicates(cpal)) =>
        \A i \in 1..Len(cpal) : cpal[i] = cto => cres = Ok(i - 1)

\* C7 witness: the last entry of the first 8 entries of the white-background palette
C7_Witness ==
    /\ ColourCalled
    /\ cpal = BgColoursFor(ANSI_COLOURS_WHITE_BG).colours
    /\ cto = ANSI_COLOURS_WHITE_BG[8]
    /\ cres = Ok(7)

\* the built-in palettes have no duplicate colour, which makes C7 apply to them
BuiltinPalettesDistinct ==
    /\ NoDuplicates(ANSI_COLOURS_WHITE_BG)
    /\ NoDuplicates(ANSI_COLOURS_BLACK_BG)

(***************************************************************************)
(* Claims about create_colourtable (SpecTable).                            *)
(***************************************************************************)
TableCalled == tres.kind # "None"

\* C8: create_colourtable returns floor(h / 2) rows of w pairs, entry [y][x]
\* being (closest_colour(pixel[x, 2y], upper), closest_colour(pixel[x, 2y + 1],
\* lower)); it reads no pixel outside the buffer, and ignores the last row of
\* an image of odd height.
C8_TableShape ==
    (TableCalled /\ ((tupper # <<>> /\ tlower # <<>>) \/ timg.w = 0 \/ timg.h < 2)) =>
        /\ tres.kind = "Ok"
        /\ Len(tres.table) = timg.h \div 2
        /\ \A y \in 0..((timg.h \div 2) - 1) :
            /\ Len(tres.table[y + 1]) = timg.w
            /\ \A x \in 0..(timg.w - 1) :
                tres.table[y + 1][x + 1] =
                    << ClosestColour(ToRgb(timg.px[2 * y + 1][x + 1]), tupper).tag,
                       ClosestColour(ToRgb(timg.px[2 * y + 2][x + 1]), tlower).tag >>
        /\ \A p \in tres.reads : p[1] < timg.w /\ p[2] < timg.h
        /\ (timg.h % 2 = 1) => \A p \in tres.reads : p[2] # timg.h - 1

\* C8 witness: a 2 x 5 image of five colours against the black-background palette:
\* two rows, the second from the source rows 2 and 3, and the fifth source row is
\* not read
C8_Witness ==
    /\ timg.w = 2
    /\ timg.h = 5
    /\ timg.px = << << <<0, 0, 0, 255>>, <<255, 255, 255, 255>> >>,
                    << <<205, 0, 0, 255>>, <<0, 0, 238, 255>> >>,
                    << <<205, 96, 0, 0>>, <<0, 0, 0, 255>> >>,
                    << <<255, 255, 255, 255>>, <<205, 0, 0, 255>> >>,
                    << <<0, 0, 238, 255>>, <<205, 96, 0, 0>> >> >>
    /\ tupper = ANSI_COLOURS_BLACK_BG
    /\ tres.kind = "Ok"
    /\ tres.table = << << <<0, 1>>, <<15, 4>> >>, << <<1, 7>>, <<0, 1>> >> >>
    /\ tres.reads = { <<x, y>> : x \in 0..1, y \in 0..3 }

(***************************************************************************)
(* Claims about main (Spec).                                               *)
(***************************************************************************)
Renderers == {"write_ansi", "write_ansi_truecolor", "write_ascii"}

AfterError == {"image_resized_size", "resize_image"} \cup Renderers

\* C9: when guess_format or load_image returns an error, no resize and no
\* renderer runs, nothing is written to stdout, the message naming the display
\* name goes to stderr and the exit value is 1 for GuessingFormatFailed and 2
\* for OpeningImageFailed; the exit value is 0 only after a renderer has run.
C9_ErrorsTerminal ==
    /\ merr.kind = "Err" =>
        /\ Range(ran) \cap AfterError = {}
        /\ out = <<>>
        /\ merr.name = opts.image.display
        /\ merr.err \in {"GuessingFormatFailed", "OpeningImageFailed"}
        /\ pc \in {"err", "exited"}
    /\ (merr.kind = "Err" /\ pc = "exited") =>
        /\ errout = << IF merr.err = "GuessingFormatFailed"
                       THEN "Failed to guess format of \"" \o opts.image.display \o "\".\n"
                       ELSE "Failed to open image file \"" \o opts.image.display \o "\".\n" >>
        /\ exit = << IF merr.err = "GuessingFormatFailed" THEN 1 ELSE 2 >>
    /\ exit = <<0>> =>
        /\ merr.kind # "Err"
        /\ ran # <<>>
        /\ ran[Len(ran)] \in Renderers
        /\ errout = <<>>
    /\ (pc = "exited" /\ merr.kind # "Err") => exit = <<0>>

\* C9 witness: a text file without extension: exit value 1, nothing on stdout
C9_Witness ==
    /\ pc = "exited"
    /\ merr = Err("GuessingFormatFailed", "../pic")
    /\ opts.image.fs.bytes = TextBytes
    /\ ran = <<"guess_format">>
    /\ exit = <<1>>
    /\ out = <<>>

\* C9 witness of the other kind: a .png that cannot be opened: exit value 2
C9_WitnessOpen ==
    /\ pc = "exited"
    /\ merr = Err("OpeningImageFailed", "pic")
    /\ opts.image.fs.kind = "noperm"
    /\ ran = <<"guess_format", "load_image">>
    /\ exit = <<2>>

\* load_image was called on a file that opens and is no image of the guessed format
DecodeFailed ==
    /\ "load_image" \in Range(ran)
    /\ opts.image.fs.kind = "file"
    /\ opts.image.fs.valid # format

\* C10 (as claimed): when the file opens and the decoder cannot parse it as the
\* guessed format, load_image returns OpeningImageFailed(display name) and the
\* process ends with that error's exit value.
\* Violated: image::load's Err is unwrapped, and main panics.
C10_DecodeFailureIsOpenFailed ==
    DecodeFailed =>
        /\ merr = Err("OpeningImageFailed", opts.image.display)
        /\ pc \in {"err", "exited"}
        /\ pc = "exited" => exit = <<2>>

\* what the code does instead: the process panics, result_main returns nothing,
\* process::exit is not called
C10_DecodeFailurePanics ==
    DecodeFailed =>
        /\ pc = "panicked"
        /\ merr = NotCalled
        /\ exit = <<>>
        /\ out = <<>>

(***************************************************************************)
(* Claims about the renderers (SpecRender, SpecGlyph).                     *)
(***************************************************************************)
RenderCalled == wres.kind # "None"

\* the ramp, dark to light
ClaimRamp == <<" ", ".", ",", "-", "~", "+", "=", "@">>

\* the glyph of a pixel: ramp[intensity / 32], intensity 0 when alpha is 0
ClaimGlyph(pix) ==
    ClaimRamp[(IF pix[4] = 0 THEN 0
               ELSE (pix[1] \div 3) + (pix[2] \div 3) + (pix[3] \div 3)) \div 32 + 1]

RECURSIVE ClaimAsciiRows(_, _)
\* the rows of the even source rows from row y (from 0) on: w glyphs and a line break each
ClaimAsciiRows(image, y) ==
    IF y >= image.h THEN <<>>
    ELSE [x \in 1..(image.w + 1) |->
            IF x <= image.w THEN ClaimGlyph(image.px[y + 1][x]) ELSE "\n"]
         \o ClaimAsciiRows(image, y + 2)

\* C11 (as claimed): the output of the ASCII renderer is one row per even source
\* row, w glyphs and a line break each, and nothing else; a solid 2 x 2 white
\* image gives the one row "@@".
\* Violated: write_ascii first prints the image's dimensions on a line of its own.
C11_AsciiRows ==
    (RenderCalled /\ wfmt = "ASCII") =>
        /\ wres.kind = "Ok"
        /\ wres.out = ClaimAsciiRows(wimg, 0)

\* what the code does: the line of the dimensions, then the rows
C11_AsciiRowsAfterDimensions ==
    (RenderCalled /\ wfmt = "ASCII") =>
        /\ wres.kind = "Ok"
        /\ wres.out = << "(" \o ToString(wimg.w) \o ", " \o ToString(wimg.h) \o ")\n" >>
                      \o ClaimAsciiRows(wimg, 0)
        /\ \A p \in wres.reads : p[2] % 2 = 0 /\ InBounds(wimg, p[1], p[2])

\* the solid 2 x 2 white image: "(2, 2)", then "@@"
C11_WhiteSquare ==
    /\ RenderCalled
    /\ wfmt = "ASCII"
    /\ wimg.w = 2 /\ wimg.h = 2
    /\ \A y \in 1..2 : \A x \in 1..2 : wimg.px[y][x] = <<255, 255, 255, 255>>
    /\ wres.out = <<"(2, 2)\n", "@", "@", "\n">>

GlyphCalled == ares.kind # "None"

\* C12: the glyph of a pixel is ramp[intensity / 32], intensity = R/3 + G/3 + B/3,
\* 0 when alpha is 0; the sum stays within 8 bits and the index within 0..7;
\* intensity 0 gives " ", intensity 255 gives "@", alpha 0 gives " ".
C12_GlyphOfIntensity ==
    GlyphCalled =>
        LET sum       == (apix[1] \div 3) + (apix[2] \div 3) + (apix[3] \div 3)
            intensity == IF apix[4] = 0 THEN 0 ELSE sum
        IN  /\ sum <= 255
            /\ intensity \div 32 \in 0..7
            /\ ares.kind = "Ok"
            /\ ares.glyph = ClaimRamp[intensity \div 32 + 1]
            /\ intensity = 0 => ares.glyph = " "
            /\ intensity = 255 => ares.glyph = "@"
            /\ apix[4] = 0 => ares.glyph = " "

\* C12 witness: a white pixel that is fully transparent prints " "
C12_Witness ==
    /\ GlyphCalled
    /\ apix = <<255, 255, 255, 0>>
    /\ ares = [kind |-> "Ok", glyph |-> " "]

\* an opaque white pixel prints "@", a mid grey one "-"
C12_WitnessOpaque ==
    /\ GlyphCalled
    /\ apix \in { <<255, 255, 255, 255>>, <<96, 96, 96, 1>> }
    /\ ares.glyph = IF apix[1] = 255 THEN "@" ELSE "-"

\* the foreground escape of palette index i: ESC[0;3im for 0..7, ESC[1;3(i-8)m for 8..15
ClaimFgEscape(i) == "\\x1B[" \o ToString(i \div 8) \o ";3" \o ToString(i % 8) \o "m"

\* the background escape of palette index i in 0..7: ESC[4im
ClaimBgEscape(i) == "\\x1B[4" \o ToString(i) \o "m"

\* the distances of the palette's entries to rgb
ClaimDiffs(rgb, pal) == Collect([i \in 1..Len(pal) |-> Diff(pal[i], rgb)])

\* the index (from 0) of the first of the least distances
ClaimFirstMin(ds) ==
    CHOOSE i \in 0..(Len(ds) - 1) :
        /\ \A j \in 0..(Len(ds) - 1) : ~F32Gt(ds[i + 1], ds[j + 1])
        /\ \A j \in 0..(i - 1) : F32Gt(ds[j + 1], ds[i + 1])

\* a cell of the given palette indices
ClaimCellOf(upperIndex, lowerIndex) ==
    [upper |-> upperIndex,
     lower |-> lowerIndex,
     text  |-> ClaimFgEscape(upperIndex) \o ClaimBgEscape(lowerIndex) \o "\\u{2580}"]

\* the cell of column x (from 1) of output row y (from 1): the pixels of source rows
\* 2y - 2 and 2y - 1, the upper one matched against the palette and the lower one
\* against its first 8 entries
ClaimAnsiCell(image, pal, x, y) ==
    ClaimCellOf(ClaimFirstMin(ClaimDiffs(ToRgb(image.px[2 * y - 1][x]), pal)),
                ClaimFirstMin(ClaimDiffs(ToRgb(image.px[2 * y][x]), SubSeq(pal, 1, 8))))

\* the cells of the floor(h/2) output rows
ClaimAnsiCells(image, pal) ==
    Collect([y \in 1..(image.h \div 2) |->
                Collect([x \in 1..image.w |-> ClaimAnsiCell(image, pal, x, y)])])

RECURSIVE ClaimAnsiRows(_, _)
\* the output of the rows up to row n: the cells of each, then ESC[0m and a line break
ClaimAnsiRows(cells, n) ==
    IF n = 0 THEN <<>>
    ELSE ClaimAnsiRows(cells, n - 1)
         \o [x \in 1..(Len(cells[n]) + 1) |->
                IF x <= Len(cells[n]) THEN cells[n][x].text ELSE "\\x1B[0m\n"]

\* the output is the rows of the cells, and every index is in the range of its table
ClaimAnsiOutput(cells, written) ==
    /\ written = ClaimAnsiRows(cells, Len(cells))
    /\ \A y \in 1..Len(cells) : \A x \in 1..Len(cells[y]) :
        /\ cells[y][x].upper \in 0..15
        /\ cells[y][x].lower \in 0..7

\* C13: write_ansi with a 16-entry palette writes, for each of the floor(h/2) rows
\* of the colour table in order, w cells of foreground escape, background escape
\* and U+2580, then ESC[0m and a line break; the upper index is in 0..15, the
\* lower index, matched against the first 8 entries, in 0..7, and no lookup in
\* the escape tables is out of range.
C13_AnsiRows ==
    (RenderCalled /\ wfmt \in {"SimpleWhite", "SimpleBlack"}) =>
        /\ wres.kind = "Ok"
        /\ Len(wres.out) = (wimg.h \div 2) * (wimg.w + 1)
        /\ ClaimAnsiOutput(ClaimAnsiCells(wimg, IF wfmt = "SimpleWhite"
                                                THEN ANSI_COLOURS_WHITE_BG
                                                ELSE ANSI_COLOURS_BLACK_BG),
                           wres.out)
        /\ \A p \in wres.reads : InBounds(wimg, p[1], p[2])

\* C13 witness: a 2 x 5 image of five colours against the black-background
\* palette: two rows of two cells and a reset each, the second row from the
\* source rows 2 and 3
C13_Witness ==
    /\ RenderCalled
    /\ wfmt = "SimpleBlack"
    /\ wimg.w = 2 /\ wimg.h = 5
    /\ wimg.px = << << <<255, 255, 255, 255>>, <<205, 96, 0, 0>> >>,
                    << <<205, 0, 0, 255>>, <<0, 0, 238, 255>> >>,
                    << <<0, 0, 0, 255>>, <<255, 255, 255, 255>> >>,
                    << <<205, 96, 0, 0>>, <<205, 0, 0, 255>> >>,
                    << <<0, 0, 238, 255>>, <<0, 0, 0, 255>> >> >>
    /\ wres.out = << "\\x1B[1;37m\\x1B[41m\\u{2580}", "\\x1B[0;31m\\x1B[44m\\u{2580}",
                     "\\x1B[0m\n",
                     "\\x1B[0;30m\\x1B[41m\\u{2580}", "\\x1B[1;37m\\x1B[41m\\u{2580}",
                     "\\x1B[0m\n" >>

\* ESC[38;2;R;G;Bm (layer 38, the foreground) or ESC[48;2;R;G;Bm (layer 48, the background)
ClaimTruecolorEscape(layer, pix) ==
    "\\x1B[" \o ToString(layer) \o ";2;" \o ToString(pix[1]) \o ";" \o ToString(pix[2])
    \o ";" \o ToString(pix[3]) \o "m"

RECURSIVE ClaimTruecolorRows(_, _)
\* the output of the rows up to row n (of pixel rows 2n - 2 and 2n - 1)
ClaimTruecolorRows(image, n) ==
    IF n = 0 THEN <<>>
    ELSE ClaimTruecolorRows(image, n - 1)
         \o [x \in 1..(image.w + 1) |->
                IF x <= image.w
                THEN ClaimTruecolorEscape(38, image.px[2 * n - 1][x])
                     \o ClaimTruecolorEscape(48, image.px[2 * n][x]) \o "\\u{2580}"
                ELSE "\\x1B[0m\n"]

\* C14: write_ansi_truecolor writes, for each output row y in 0..floor(h/2) and
\* each column in order, the foreground escape with the R,G,B of pixel (x, 2y),
\* the background escape with the R,G,B of pixel (x, 2y+1) and U+2580, and ends
\* the row with ESC[0m and a line break; the colours are the pixels' own, not
\* palette entries; no row index >= h is read, also when h is odd.
C14_TruecolorRows ==
    (RenderCalled /\ wfmt = "Truecolor") =>
        /\ wres.kind = "Ok"
        /\ wres.out = ClaimTruecolorRows(wimg, wimg.h \div 2)
        /\ \A p \in wres.reads : p[1] < wimg.w /\ p[2] < wimg.h
        /\ wres.reads = { <<x, y>> : x \in 0..(wimg.w - 1), y \in 0..(2 * (wimg.h \div 2) - 1) }

\* C14 witness: the same 2 x 5 image: two rows of two cells with the colours of the
\* source rows 0 and 1, then 2 and 3, as they are; the fifth row is not read
C14_Witness ==
    /\ RenderCalled
    /\ wfmt = "Truecolor"
    /\ wimg.w = 2 /\ wimg.h = 5
    /\ wimg.px = << << <<255, 255, 255, 255>>, <<205, 96, 0, 0>> >>,
                    << <<205, 0, 0, 255>>, <<0, 0, 238, 255>> >>,
                    << <<0, 0, 0, 255>>, <<255, 255, 255, 255>> >>,
                    << <<205, 96, 0, 0>>, <<205, 0, 0, 255>> >>,
                    << <<0, 0, 238, 255>>, <<0, 0, 0, 255>> >> >>
    /\ wres.out = << "\\x1B[38;2;255;255;255m\\x1B[48;2;205;0;0m\\u{2580}",
                     "\\x1B[38;2;205;96;0m\\x1B[48;2;0;0;238m\\u{2580}",
                     "\\x1B[0m\n",
                     "\\x1B[38;2;0;0;0m\\x1B[48;2;205;96;0m\\u{2580}",
                     "\\x1B[38;2;255;255;255m\\x1B[48;2;205;0;0m\\u{2580}",
                     "\\x1B[0m\n" >>
    /\ wres.reads = { <<x, y>> : x \in 0..1, y \in 0..3 }

(***************************************************************************)
(* Claims about the planned size being renderable (SpecSize).              *)
(***************************************************************************)
\* C15 (as claimed): for a source of width >= 1 and height >= 1 and a terminal of
\* cols >= 1 and rows >= 1, image_resized_size returns a width >= 1 and a height
\* >= 1, with and without preserve_aspect.
\* Violated: with preserve_aspect the scaled dimension that does not bind is
\* truncated, to 0 when it is below 1.
C15_NonZeroSize ==
    (SizeCalled /\ ssize[1] >= 1 /\ ssize[2] >= 1 /\ sterm[1] >= 1 /\ sterm[2] >= 1) =>
        sres[1] >= 1 /\ sres[2] >= 1

\* what holds: without preserve_aspect neither dimension is 0, and with it at
\* most one is
C15_NotBothZero ==
    (SizeCalled /\ ssize[1] >= 1 /\ ssize[2] >= 1 /\ sterm[1] >= 1 /\ sterm[2] >= 1) =>
        /\ ~saspect => (sres[1] >= 1 /\ sres[2] >= 1)
        /\ sres[1] >= 1 \/ sres[2] >= 1

\* a 3 x 2 image on a terminal of one cell: 1 x 0
C15_ZeroHeight ==
    /\ SizeCalled
    /\ ssize = <<3, 2>>
    /\ sterm = <<1, 1>>
    /\ saspect
    /\ sres = <<1, 0>>

\* the same through main: a renderer runs on an image without rows
C15_RendersZeroHeight ==
    /\ pc = "ok"
    /\ Dimensions(img) = <<3, 2>>
    /\ opts.size = <<1, 1>>
    /\ opts.preserve_aspect
    /\ Dimensions(resized) = <<1, 0>>

====
